---- MODULE Spec2Model ----
(***************************************************************************)
(* parse_eit.c: decoder of DVB Event Information Table (.eit) records.     *)
(*                                                                         *)
(* Bytes are integers 0..255, a text field is the sequence of the len      *)
(* bytes at p, printed output is a sequence of events whose payload is the *)
(* sequence of bytes handed to stdout.                                     *)
(***************************************************************************)
EXTENDS Integers, Sequences, FiniteSets, TLC

VARIABLES
  num_files,        \* argc - 1
  k,                \* index of the file being decoded, 1..num_files
  pc,               \* position in main: "open", "header", "loop", "exit";
                    \* "call", "called", "first", "second", "joined" in the
                    \* harnesses of the pure functions
  buf,              \* the num bytes fread put into buf
  num,              \* number of bytes read
  p,                \* the cursor, as an offset into buf
  shortevent_count, \* main's counter of short event descriptors
  bytes_left,       \* dump_text's static carryover; <<>> is the null pointer
  out,              \* what was printed for the current record
  outcome,          \* "none", "done" or the kind of fatal exit
  hdr,              \* the header fields printed for the current record
  descriptor_tag,   \* tag of the descriptor of the last iteration
  descriptor_length,\* its length byte
  length_of_items,  \* the items length byte an extended event iteration read
  it_start,         \* cursor at the start of the last iteration
  out_mark,         \* Len(out) at the start of the last iteration
  outbuf,           \* the text iconv produced in the last dump_text call
  printed,          \* what print_JSON_escaped printed in that call
  fin,              \* input of the pure function under check
  fout              \* its result

vars == <<num_files, k, pc, buf, num, p, shortevent_count, bytes_left, out,
          outcome, hdr, descriptor_tag, descriptor_length, length_of_items,
          it_start, out_mark, outbuf, printed, fin, fout>>

(***************************************************************************)
(* Bounds of the model.                                                    *)
(***************************************************************************)
MaxFiles == 2
MaxDesc == 2
MaxField == 3
MaxText == 4

(***************************************************************************)
(* Program constants.                                                      *)
(***************************************************************************)
SHORT_EVENT_DESCRIPTOR == 77
EXTENDED_EVENT_DESCRIPTOR == 78
COMPONENT_DESCRIPTOR == 80

Byte == 0..255

None == "none"

(***************************************************************************)
(* Sequence helpers.                                                       *)
(***************************************************************************)
Take(s, n) == SubSeq(s, 1, IF n < Len(s) THEN n ELSE Len(s))

Drop(s, n) == SubSeq(s, n + 1, Len(s))

RECURSIVE SeqsUpTo(_, _)
SeqsUpTo(S, n) ==
  IF n = 0 THEN {<<>>}
  ELSE
    LET shorter == SeqsUpTo(S, n - 1)
    IN  shorter \cup {Append(s, x) : s \in {t \in shorter : Len(t) = n - 1}, x \in S}

\* the least element of a set of numbers, 0 for the empty set
First(S) == IF S = {} THEN 0 ELSE CHOOSE i \in S : \A j \in S : i <= j

\* the concatenation of f[lo], ..., f[hi]
RECURSIVE Flat(_, _, _)
Flat(f, lo, hi) ==
  IF lo > hi THEN <<>>
  ELSE IF lo = hi THEN f[lo]
  ELSE LET mid == (lo + hi) \div 2
       IN  Flat(f, lo, mid) \o Flat(f, mid + 1, hi)

\* strlen / strndup: the bytes of s before its first 0 byte, at most n of them
strndup(s, n) ==
  LET z == First({i \in 1..Len(s) : s[i] = 0})
      m == IF z = 0 THEN Len(s) ELSE z - 1
  IN  Take(s, IF n < m THEN n ELSE m)

(***************************************************************************)
(* get_code_table                                                          *)
(***************************************************************************)
\* the switch on the first byte
CodeTable1(first_byte_value) ==
  CASE first_byte_value = 1 -> "ISO-8859-5"
    [] first_byte_value = 2 -> "ISO-8859-6"
    [] first_byte_value = 3 -> "ISO-8859-7"
    [] first_byte_value = 4 -> "ISO-8859-8"
    [] first_byte_value = 5 -> "ISO-8859-9"
    [] first_byte_value = 6 -> "ISO-8859-10"
    [] first_byte_value = 7 -> "ISO-8859-11"
    [] first_byte_value = 9 -> "ISO-8859-13"
    [] first_byte_value = 10 -> "ISO-8859-14"
    [] first_byte_value = 11 -> "ISO-8859-15"
    [] first_byte_value = 17 -> "ISO-10646"
    [] first_byte_value = 19 -> "GB2312"
    [] first_byte_value = 21 -> "ISO-10646/UTF8"
    [] OTHER -> "ISO-8859-1"

\* the switch on the third byte after 0x10 0x00; cur is the table set so far
CodeTable3(third_byte_value, cur) ==
  CASE third_byte_value = 1 -> "ISO-8859-1"
    [] third_byte_value = 2 -> "ISO-8859-2"
    [] third_byte_value = 3 -> "ISO-8859-3"
    [] third_byte_value = 4 -> "ISO-8859-4"
    [] third_byte_value = 5 -> "ISO-8859-5"
    [] third_byte_value = 6 -> "ISO-8859-6"
    [] third_byte_value = 7 -> "ISO-8859-7"
    [] third_byte_value = 8 -> "ISO-8859-8"
    [] third_byte_value = 9 -> "ISO-8859-9"
    [] third_byte_value = 10 -> "ISO-8859-10"
    [] third_byte_value = 11 -> "ISO-8859-11"
    [] third_byte_value = 13 -> "ISO-8859-13"
    [] third_byte_value = 14 -> "ISO-8859-14"
    [] third_byte_value = 15 -> "ISO-8859-15"
    [] OTHER -> cur

\* the result of a call that exits (exit (-1)) or aborts (assert)
SelFatal(kind) == [fatal |-> kind, ret |-> 0, code_table |-> None]

\* get_code_table without the ret += 2 of the 0x10 branch
get_code_table_no_ret2(t, len) ==
  IF len >= 1 /\ t[1] < 32
  THEN
    IF t[1] = 16
    THEN
      IF len >= 3
      THEN
        IF t[2] = 0
        THEN [fatal |-> None, ret |-> 1,
              code_table |-> CodeTable3(t[3], CodeTable1(t[1]))]
        ELSE SelFatal("assert")
      ELSE SelFatal("selector_short")
    ELSE [fatal |-> None, ret |-> 1, code_table |-> CodeTable1(t[1])]
  ELSE [fatal |-> None, ret |-> 0, code_table |-> "ISO-8859-1"]

\* get_code_table without the assert on the second byte
get_code_table_no_assert(t, len) ==
  IF len >= 1 /\ t[1] < 32
  THEN
    IF t[1] = 16
    THEN
      IF len >= 3
      THEN [fatal |-> None, ret |-> 3,
            code_table |-> CodeTable3(t[3], CodeTable1(t[1]))]
      ELSE SelFatal("selector_short")
    ELSE [fatal |-> None, ret |-> 1, code_table |-> CodeTable1(t[1])]
  ELSE [fatal |-> None, ret |-> 0, code_table |-> "ISO-8859-1"]

\* t: the bytes at p (t[1] is p[0]); len: the length handed in.
\* fatal is None when the function returns.
get_code_table(t, len) ==
  IF len >= 1 /\ t[1] < 32
  THEN
    IF t[1] = 16
    THEN
      IF len >= 3
      THEN
        IF t[2] = 0
        THEN [fatal |-> None, ret |-> 3,
              code_table |-> CodeTable3(t[3], CodeTable1(t[1]))]
        ELSE SelFatal("assert")
      ELSE SelFatal("selector_short")
    ELSE [fatal |-> None, ret |-> 1, code_table |-> CodeTable1(t[1])]
  ELSE [fatal |-> None, ret |-> 0, code_table |-> "ISO-8859-1"]

(***************************************************************************)
(* print_JSON_escaped                                                      *)
(***************************************************************************)
\* one digit of printf's %x
HexDigit(d) == IF d < 10 THEN 48 + d ELSE 87 + d

\* printf ("\\u%04x", c) for a character c in 0..127
Escape(c) == <<92, 117, 48, 48, HexDigit(c \div 16), HexDigit(c % 16)>>

\* the test of the if: '"', '\\' or '\x00' <= *p <= '\x1f'. A byte above 127
\* fails it whether char is signed (it is negative) or not (it is above 0x1f).
NeedsEscape(c) == c = 34 \/ c = 92 \/ (0 <= c /\ c <= 31)

\* s: the bytes of outbuf before the terminating 0 that dump_text writes.
\* The loop runs while (*p), so it ends at the first 0 byte.
print_JSON_escaped(s) ==
  LET str == strndup(s, Len(s))
  IN  Flat([i \in 1..Len(str) |->
              IF NeedsEscape(str[i]) THEN Escape(str[i]) ELSE <<str[i]>>],
           1, Len(str))

(***************************************************************************)
(* iconv (cd, &pin, &len, &pout, &outbytesleft) to UTF-8.                  *)
(* Modelled for the 8-bit tables and for UTF-8 input; bytes 0xF0..0xFF do  *)
(* not occur in UTF-8 input of the model, and of the upper half of the     *)
(* 8-bit tables other than ISO-8859-1 only 0xA4 and 0xC3 occur.            *)
(***************************************************************************)
\* UTF-8 encoding of a code point below 0x10000
Utf8Encode(cp) ==
  IF cp < 128 THEN <<cp>>
  ELSE IF cp < 2048 THEN <<192 + (cp \div 64), 128 + (cp % 64)>>
  ELSE <<224 + (cp \div 4096), 128 + ((cp \div 64) % 64), 128 + (cp % 64)>>

\* code point of byte b in an 8-bit table, -1 where the table has none
SingleByteCp(code_table, b) ==
  IF b < 160 \/ code_table = "ISO-8859-1" THEN b
  ELSE IF b = 164 THEN
    CASE code_table \in {"ISO-8859-7", "ISO-8859-15"} -> 8364
      [] code_table = "ISO-8859-5" -> 1028
      [] code_table = "ISO-8859-10" -> 298
      [] code_table = "ISO-8859-11" -> 3588
      [] code_table = "ISO-8859-14" -> 266
      [] OTHER -> 164
  ELSE
    CASE b = 195 /\ code_table \in {"ISO-8859-4", "ISO-8859-9", "ISO-8859-10",
                                    "ISO-8859-14", "ISO-8859-15"} -> 195
      [] b = 195 /\ code_table = "ISO-8859-2" -> 258
      [] b = 195 /\ code_table \in {"ISO-8859-3", "ISO-8859-8"} -> -1
      [] b = 195 /\ code_table = "ISO-8859-5" -> 1059
      [] b = 195 /\ code_table = "ISO-8859-6" -> 1571
      [] b = 195 /\ code_table = "ISO-8859-7" -> 915
      [] b = 195 /\ code_table = "ISO-8859-11" -> 3619
      [] b = 195 /\ code_table = "ISO-8859-13" -> 262

IsCont(b) == 128 <= b /\ b <= 191

\* what the UTF-8 reader does with the sequence that starts at s[i]: "ok"
\* with its length, "EINVAL" (incomplete at the end of the input) or "EILSEQ"
Utf8Head(s, i) ==
  LET b == s[i]
      have == Len(s) - i + 1
  IN
  CASE b < 128 -> [err |-> "ok", n |-> 1]
    [] 128 <= b /\ b < 194 -> [err |-> "EILSEQ", n |-> 0]
    [] 194 <= b /\ b < 224 ->
         IF have < 2 THEN [err |-> "EINVAL", n |-> 0]
         ELSE IF IsCont(s[i + 1]) THEN [err |-> "ok", n |-> 2]
         ELSE [err |-> "EILSEQ", n |-> 0]
    [] 224 <= b /\ b < 240 ->
         IF have >= 2 /\ (~IsCont(s[i + 1]) \/ (b = 224 /\ s[i + 1] < 160)
                          \/ (b = 237 /\ s[i + 1] >= 160))
         THEN [err |-> "EILSEQ", n |-> 0]
         ELSE IF have >= 3 /\ ~IsCont(s[i + 2]) THEN [err |-> "EILSEQ", n |-> 0]
         ELSE IF have < 3 THEN [err |-> "EINVAL", n |-> 0]
         ELSE [err |-> "ok", n |-> 3]

\* the length a byte that is no continuation byte announces
LeadLen(b) == IF 194 <= b /\ b < 224 THEN 2 ELSE IF 224 <= b /\ b < 240 THEN 3 ELSE 1

\* the reader, going through s from the left while every sequence is "ok",
\* starts a sequence at s[i]: at every byte that is no continuation byte, and
\* at a continuation byte that the sequence before it does not reach
Utf8Start(s, i) ==
  \/ ~IsCont(s[i])
  \/ LET leads == {j \in 1..(i - 1) : ~IsCont(s[j])}
         lead == IF leads = {} THEN 0
                 ELSE CHOOSE j \in leads : \A j2 \in leads : j2 <= j
     IN  lead = 0 \/ i - lead >= LeadLen(s[lead])

\* err: "ok", "EINVAL" or "EILSEQ"; out: the bytes written to outbuf;
\* left: the input bytes from pin on when it returns.  The conversion stops
\* at the first sequence (the first byte, in an 8-bit table) it cannot convert.
iconv(code_table, in) ==
  IF code_table = "ISO-10646/UTF8" THEN
    LET e == First({i \in 1..Len(in) :
                      Utf8Start(in, i) /\ Utf8Head(in, i).err # "ok"})
    IN  IF e = 0 THEN [err |-> "ok", out |-> in, left |-> <<>>]
        ELSE [err |-> Utf8Head(in, e).err, out |-> Take(in, e - 1),
              left |-> Drop(in, e - 1)]
  ELSE
    LET e == First({i \in 1..Len(in) : SingleByteCp(code_table, in[i]) = -1})
        n == IF e = 0 THEN Len(in) ELSE e - 1
    IN  [err |-> IF e = 0 THEN "ok" ELSE "EILSEQ",
         out |-> Flat([i \in 1..n |-> Utf8Encode(SingleByteCp(code_table, in[i]))],
                      1, n),
         left |-> Drop(in, n)]

(***************************************************************************)
(* dump_text                                                               *)
(***************************************************************************)
\* t: the len bytes at p; append: the third argument; carry: bytes_left at
\* the call.  fatal: None or the kind of exit; printed: what went to stdout;
\* outbuf: the converted text; bytes_left: the static after the call;
\* inc: the bytes get_code_table took; back: how many bytes before p + inc
\* the strncpy overwrote with the carryover.
dump_text(t, len, append, carry) ==
  LET sel == get_code_table(t, len) IN
  IF sel.fatal # None
  THEN [fatal |-> sel.fatal, printed |-> <<>>, outbuf |-> <<>>,
        bytes_left |-> carry, back |-> 0, inc |-> 0]
  ELSE
    LET inc == sel.ret
        rest == SubSeq(t, inc + 1, len)
        num_bytes_left == IF append THEN Len(strndup(carry, Len(carry))) ELSE 0
        \* p -= num_bytes_left and strncpy; len stays len - inc
        in == Take(Take(carry, num_bytes_left) \o rest, len - inc)
        c == iconv(sel.code_table, in)
    IN
    IF c.err = "EILSEQ"
    THEN [fatal |-> "iconv_EILSEQ", printed |-> <<>>, outbuf |-> c.out,
          bytes_left |-> <<>>, back |-> num_bytes_left, inc |-> inc]
    ELSE [fatal |-> None,
          printed |-> print_JSON_escaped(c.out),
          outbuf |-> c.out,
          bytes_left |-> IF c.err = "EINVAL"
                         THEN strndup(c.left, Len(c.left)) ELSE <<>>,
          back |-> num_bytes_left, inc |-> inc]

(***************************************************************************)
(* parse_duration, parse_start_time                                        *)
(***************************************************************************)
\* d < c for a size_t d computed as a difference of smaller numbers: a
\* negative difference wraps to a value near 2^64, above every c of the code
SizeLess(d, c) == 0 <= d /\ d < c

\* conversion of a double to int: truncation toward zero (b > 0)
TruncDiv(a, b) == IF a >= 0 THEN a \div b ELSE -((-a) \div b)

Bcd(b) == ((b \div 16) * 10) + (b % 16)

\* t: the bytes at p; the value returned when len >= 3
parse_duration(t) == [hour |-> Bcd(t[1]), minute |-> Bcd(t[2]), second |-> Bcd(t[3])]

\* the date of parse_start_time; the doubles are exact rationals here:
\* (MJD - 15078.2) / 365.25 = (100 MJD - 1507820) / 36525,
\* (MJD - 14956.1 - tmp) / 30.6001 = (10 (MJD - tmp) - 149561) 1000 / 306001
MjdDate(MJD) ==
  LET Ys == TruncDiv((100 * MJD) - 1507820, 36525)
      tmp == TruncDiv(Ys * 36525, 100)
      Ms == TruncDiv((((MJD - tmp) * 10) - 149561) * 1000, 306001)
      tmp2 == TruncDiv(Ms * 306001, 10000)
      K == IF Ms = 14 \/ Ms = 15 THEN 1 ELSE 0
  IN  [Y |-> Ys + K, M |-> Ms - 1 - (K * 12), D |-> MJD - 14956 - tmp - tmp2]

\* t: the bytes at p; the value returned when len >= 5
parse_start_time(t) ==
  [date |-> MjdDate((t[1] * 256) + t[2]),
   t |-> parse_duration(SubSeq(t, 3, 5))]

(***************************************************************************)
(* main: the memory the cursor reads.  buf is an uninitialised array of    *)
(* which fread set the first num bytes: a byte at an offset >= num has an  *)
(* indeterminate value, g.                                                 *)
(***************************************************************************)
At(g, i) == IF i < num THEN buf[i + 1] ELSE g

Field(g, at, len) == [j \in 1..len |-> At(g, at + j - 1)]

\* values an indeterminate byte takes in the model
Garbage == {0, 16, 65, 78, 195}

\* values an uninitialised int takes in the model
Indeterminate == {0, 32767}

\* one printf (or the text a dump_text call printed)
Ev(kind, n, data) == [kind |-> kind, n |-> n, data |-> data]

\* buf after dump_text's strncpy of the carryover to the back bytes before at
Poke(at, back, carry) ==
  [i \in 1..num |->
     IF at - back < i /\ i <= at THEN carry[i - (at - back)] ELSE buf[i]]

(***************************************************************************)
(* The files of the run.                                                   *)
(***************************************************************************)
Header == <<18, 52, 192, 121, 18, 69, 0, 1, 69, 48, 224, 0>>

Lang == <<100, 101, 117>>

ShortD(dl, name, text) ==
  <<SHORT_EVENT_DESCRIPTOR, dl>> \o Lang \o <<Len(name)>> \o name
    \o <<Len(text)>> \o text

ExtD(dl, dn, last, items, text) ==
  <<EXTENDED_EVENT_DESCRIPTOR, dl, (dn * 16) + last>> \o Lang
    \o <<items, Len(text)>> \o text

CompD(dl, payload) == <<COMPONENT_DESCRIPTOR, dl>> \o payload

DescPool ==
  { ShortD(7, <<65>>, <<65>>),          \* well formed
    ShortD(9, <<>>, <<65>>),            \* declares 9 bytes, holds 6
    ShortD(6, <<16>>, <<>>),            \* name: 0x10 without its two bytes
    ExtD(9, 0, 1, 0, <<21, 65, 195>>),  \* first fragment, ends inside a sequence
    ExtD(9, 1, 1, 0, <<21, 164, 65>>),  \* last fragment, completes it
    ExtD(7, 0, 0, 0, <<65>>),           \* a single fragment
    ExtD(6, 0, 0, 1, <<>>),             \* items, descriptor_number 0
    ExtD(6, 1, 1, 1, <<>>),             \* items, descriptor_number 1
    CompD(6, <<1, 1, 1>> \o Lang),
    CompD(3, <<1, 1, 1>>),              \* declared length below 6
    CompD(8, <<1, 1, 1>> \o Lang),      \* declares 8 bytes, holds 6
    <<65, 0>>,                          \* a tag that is none of the three
    <<65, 2>>,
    <<SHORT_EVENT_DESCRIPTOR, 5, 100>>  \* cut after three bytes
  }

RECURSIVE Bodies(_)
Bodies(n) ==
  IF n = 0 THEN {<<>>}
  ELSE LET shorter == Bodies(n - 1)
       IN  shorter \cup {b \o d : b \in shorter, d \in DescPool}

\* the last record ends on a tag byte without its length byte
Records ==
  {<<>>, Take(Header, 6), Header \o <<65>>}
    \cup {Header \o b : b \in Bodies(MaxDesc)}

(***************************************************************************)
(* main                                                                    *)
(***************************************************************************)
Init ==
  /\ num_files \in 1..MaxFiles
  /\ k = 1
  /\ pc = "open"
  /\ buf = <<>>
  /\ num = 0
  /\ p = 0
  /\ shortevent_count = 0
  /\ bytes_left = <<>>
  /\ out = <<>>
  /\ outcome = None
  /\ hdr = None
  /\ descriptor_tag = 0
  /\ descriptor_length = 0
  /\ length_of_items = 0
  /\ it_start = 0
  /\ out_mark = 0
  /\ outbuf = <<>>
  /\ printed = <<>>
  /\ fin = None
  /\ fout = None

harness == <<fin, fout>>

iteration == <<descriptor_tag, descriptor_length, length_of_items, it_start,
               out_mark>>

\* for (k = 1; k < argc; ++k): fopen, fread, fclose
OpenFile ==
  /\ pc = "open"
  /\ k <= num_files
  /\ \E rec \in Records :
       /\ buf' = rec
       /\ num' = Len(rec)
  /\ p' = 0
  /\ out' = <<>>
  /\ outcome' = None
  /\ hdr' = None
  /\ pc' = "header"
  /\ descriptor_tag' = 0
  /\ descriptor_length' = 0
  /\ length_of_items' = 0
  /\ it_start' = 0
  /\ out_mark' = 0
  /\ outbuf' = <<>>
  /\ printed' = <<>>
  /\ UNCHANGED <<num_files, k, shortevent_count, bytes_left>>
  /\ UNCHANGED harness

\* uint8_t running_status = p[0] & 0x03
RunningStatus(b) == b % 4

\* uint8_t free_CA_mode = (p[0] >> 3) & 0x01
FreeCAMode(b) == (b \div 8) % 2

\* event_id .. descriptors_loop_length; the cursor ends behind them
ParseHeader ==
  /\ pc = "header"
  /\ \E g \in (IF num < 12 THEN Garbage ELSE {0}),
        u \in (IF num < 10 THEN Indeterminate ELSE {0}) :
       LET len1 == num - 2
           r1 == IF SizeLess(len1, 5) THEN 0 ELSE 5
           st == IF SizeLess(len1, 5)
                 THEN [date |-> [Y |-> u, M |-> u, D |-> u],
                       t |-> [hour |-> u, minute |-> u, second |-> u]]
                 ELSE parse_start_time(Field(g, 2, 5))
           p1 == 2 + r1
           len2 == num - p1
           r2 == IF SizeLess(len2, 3) THEN 0 ELSE 3
           dur == IF SizeLess(len2, 3)
                  THEN [hour |-> u, minute |-> u, second |-> u]
                  ELSE parse_duration(Field(g, p1, 3))
           p2 == p1 + r2
           b0 == At(g, p2)
           b1 == At(g, p2 + 1)
       IN  /\ hdr' = [event_id |-> (At(g, 0) * 256) + At(g, 1),
                      st |-> st,
                      dur |-> dur,
                      running_status |-> RunningStatus(b0),
                      free_CA_mode |-> FreeCAMode(b0),
                      descriptors_loop_length |-> ((b0 \div 16) * 4096) + b1]
           /\ p' = p2 + 2
  /\ pc' = "loop"
  /\ UNCHANGED <<num_files, k, buf, num, shortevent_count, bytes_left, out,
                 outcome, outbuf, printed>>
  /\ UNCHANGED iteration
  /\ UNCHANGED harness

\* the iteration's exit (-1): what it printed stays printed
Exit(kind, evs, d) ==
  /\ pc' = "exit"
  /\ outcome' = kind
  /\ out' = out \o evs
  /\ p' = p
  /\ bytes_left' = d.bytes_left
  /\ outbuf' = d.outbuf
  /\ printed' = d.printed

\* a dump_text result for an iteration that called none
NoText == [fatal |-> None, printed |-> printed, outbuf |-> outbuf,
           bytes_left |-> bytes_left, back |-> 0, inc |-> 0]

\* the iteration reaches the end of the loop body
Continue(q, evs, d) ==
  /\ pc' = "loop"
  /\ outcome' = outcome
  /\ out' = out \o evs
  /\ p' = q
  /\ bytes_left' = d.bytes_left
  /\ outbuf' = d.outbuf
  /\ printed' = d.printed

\* if (descriptor_tag == SHORT_EVENT_DESCRIPTOR)
ShortEvent(g, q) ==
  LET count == shortevent_count + 1
      event_name_length == At(g, q + 3)
      name == dump_text(Field(g, q + 4, event_name_length), event_name_length,
                        FALSE, bytes_left)
      q1 == q + 4 + event_name_length
      text_length == At(g, q1)
      text == dump_text(Field(g, q1 + 1, text_length), text_length,
                        FALSE, name.bytes_left)
      head == <<Ev("short_open", count, <<>>), Ev("lang", 0, Field(g, q, 3)),
                Ev("name_key", 0, <<>>)>>
      mid == <<Ev("chars", 0, name.printed), Ev("name_end", 0, <<>>),
               Ev("text_key", 0, <<>>)>>
      tail == <<Ev("chars", 0, text.printed), Ev("short_close", 0, <<>>)>>
  IN  /\ shortevent_count' = count
      /\ length_of_items' = length_of_items
      /\ buf' = buf
      /\ IF name.fatal # None THEN Exit(name.fatal, head, name)
         ELSE IF text.fatal # None THEN Exit(text.fatal, head \o mid, text)
         ELSE Continue(q1 + 1 + text_length, head \o mid \o tail, text)

\* the extended event branch with p += 3 only for descriptor_number 0
ExtendedEvent_lang_once(g, q) ==
  LET descriptor_number == At(g, q) \div 16
      last_descriptor_number == At(g, q) % 16
      head == IF descriptor_number = 0
              THEN <<Ev("ext_open", 0, <<>>), Ev("lang", 0, Field(g, q + 1, 3)),
                     Ev("text_key", 0, <<>>)>>
              ELSE <<>>
      q3 == IF descriptor_number = 0 THEN q + 4 ELSE q + 1
      items == At(g, q3)
      text_length == At(g, q3 + 1)
      text == dump_text(Field(g, q3 + 2, text_length), text_length,
                        descriptor_number > 0, bytes_left)
      tail == <<Ev("chars", 0, text.printed)>>
              \o (IF descriptor_number = last_descriptor_number
                  THEN <<Ev("ext_close", 0, <<>>)>> ELSE <<>>)
  IN  /\ shortevent_count' = shortevent_count
      /\ length_of_items' = items
      /\ IF items > 0
         THEN /\ Exit("items", head, NoText)
              /\ buf' = buf
         ELSE /\ buf' = Poke(q3 + 2 + text.inc, text.back, bytes_left)
              /\ IF text.fatal # None THEN Exit(text.fatal, head, text)
                 ELSE Continue(q3 + 2 + text_length, head \o tail, text)

\* else if (descriptor_tag == EXTENDED_EVENT_DESCRIPTOR)
ExtendedEvent(g, q) ==
  LET descriptor_number == At(g, q) \div 16
      last_descriptor_number == At(g, q) % 16
      head == IF descriptor_number = 0
              THEN <<Ev("ext_open", 0, <<>>), Ev("lang", 0, Field(g, q + 1, 3)),
                     Ev("text_key", 0, <<>>)>>
              ELSE <<>>
      items == At(g, q + 4)
      text_length == At(g, q + 5)
      text == dump_text(Field(g, q + 6, text_length), text_length,
                        descriptor_number > 0, bytes_left)
      tail == <<Ev("chars", 0, text.printed)>>
              \o (IF descriptor_number = last_descriptor_number
                  THEN <<Ev("ext_close", 0, <<>>)>> ELSE <<>>)
  IN  /\ shortevent_count' = shortevent_count
      /\ length_of_items' = items
      /\ IF items > 0
         THEN /\ Exit("items", head, NoText)
              /\ buf' = buf
         ELSE /\ buf' = Poke(q + 6 + text.inc, text.back, bytes_left)
              /\ IF text.fatal # None THEN Exit(text.fatal, head, text)
                 ELSE Continue(q + 6 + text_length, head \o tail, text)

\* else if (descriptor_tag == COMPONENT_DESCRIPTOR): p += 6, then
\* size_t len = descriptor_length - 6; p += len.  For descriptor_length < 6
\* len is 2^64 - (6 - descriptor_length) and the addition wraps modulo 2^64
\* to the same address as adding the negative difference.
Component(g, q, length) ==
  LET len == length - 6
  IN  /\ shortevent_count' = shortevent_count
      /\ length_of_items' = length_of_items
      /\ buf' = buf
      /\ Continue(q + 6 + len, <<>>, NoText)

\* the unknown-tag branch with if (bytes_left >= 0)
UnknownTag_ge(q) ==
  /\ shortevent_count' = shortevent_count
  /\ length_of_items' = length_of_items
  /\ buf' = buf
  /\ IF num - q >= 0
     THEN Exit("unknown_tag", <<Ev("empty_structure", 0, <<>>)>>, NoText)
     ELSE Continue(q, <<>>, NoText)

\* else: int bytes_left = buf + num - p
UnknownTag(q) ==
  /\ shortevent_count' = shortevent_count
  /\ length_of_items' = length_of_items
  /\ buf' = buf
  /\ IF num - q > 0
     THEN Exit("unknown_tag", <<Ev("empty_structure", 0, <<>>)>>, NoText)
     ELSE Continue(q, <<>>, NoText)

\* one iteration of while (p < (buf + num))
Iterate ==
  /\ pc = "loop"
  /\ p < num
  /\ \E g \in Garbage :
       LET tag == At(g, p)
           length == At(g, p + 1)
           q == p + 2
       IN  /\ descriptor_tag' = tag
           /\ descriptor_length' = length
           /\ it_start' = p
           /\ out_mark' = Len(out)
           /\ CASE tag = SHORT_EVENT_DESCRIPTOR -> ShortEvent(g, q)
                [] tag = EXTENDED_EVENT_DESCRIPTOR -> ExtendedEvent(g, q)
                [] tag = COMPONENT_DESCRIPTOR -> Component(g, q, length)
                [] OTHER -> UnknownTag(q)
  /\ UNCHANGED <<num_files, k, num, hdr>>
  /\ UNCHANGED harness

\* the loop ends: the closing of the record's object, ++k
EndRecord ==
  /\ pc = "loop"
  /\ p >= num
  /\ outcome' = "done"
  /\ k' = k + 1
  /\ pc' = "open"
  /\ UNCHANGED <<num_files, buf, num, p, shortevent_count, bytes_left, out,
                 hdr, outbuf, printed>>
  /\ UNCHANGED iteration
  /\ UNCHANGED harness

\* return 0
Return ==
  /\ pc = "open"
  /\ k > num_files
  /\ pc' = "exit"
  /\ UNCHANGED <<num_files, k, buf, num, p, shortevent_count, bytes_left, out,
                 outcome, hdr, outbuf, printed>>
  /\ UNCHANGED iteration
  /\ UNCHANGED harness

Next == OpenFile \/ ParseHeader \/ Iterate \/ EndRecord \/ Return

Spec == Init /\ [][Next]_vars

(***************************************************************************)
(* get_code_table on its own: every first byte, lengths 0..MaxField.       *)
(***************************************************************************)
SelectorInputs ==
  {[t |-> <<a, b, c>>, len |-> n] :
     a \in Byte, b \in {0, 1, 255}, c \in {0, 1, 2, 15, 16, 255}, n \in 0..MaxField}

InitSelector ==
  /\ fin \in SelectorInputs
  /\ fout = None
  /\ pc = "call_get_code_table"
  /\ num_files = 0 /\ k = 1 /\ buf = <<>> /\ num = 0 /\ p = 0
  /\ shortevent_count = 0 /\ bytes_left = <<>> /\ out = <<>>
  /\ outcome = None /\ hdr = None
  /\ descriptor_tag = 0 /\ descriptor_length = 0 /\ length_of_items = 0
  /\ it_start = 0 /\ out_mark = 0 /\ outbuf = <<>> /\ printed = <<>>

main == <<num_files, k, buf, num, p, shortevent_count, out, hdr>>

CallGetCodeTable ==
  /\ pc = "call_get_code_table"
  /\ fout' = get_code_table(fin.t, fin.len)
  /\ pc' = "called_get_code_table"
  /\ UNCHANGED <<fin, bytes_left, outcome, outbuf, printed>>
  /\ UNCHANGED main
  /\ UNCHANGED iteration

SpecSelector == InitSelector /\ [][CallGetCodeTable]_vars

(***************************************************************************)
(* dump_text on its own: one call on a text field, no carryover.           *)
(***************************************************************************)
DumpBytes == {0, 31, 34, 65, 92, 195}

InitDump ==
  /\ fin \in {[t |-> t] : t \in SeqsUpTo(DumpBytes, MaxField)}
  /\ fout = None
  /\ pc = "call_dump_text"
  /\ num_files = 0 /\ k = 1 /\ buf = <<>> /\ num = 0 /\ p = 0
  /\ shortevent_count = 0 /\ bytes_left = <<>> /\ out = <<>>
  /\ outcome = None /\ hdr = None
  /\ descriptor_tag = 0 /\ descriptor_length = 0 /\ length_of_items = 0
  /\ it_start = 0 /\ out_mark = 0 /\ outbuf = <<>> /\ printed = <<>>

CallDumpText ==
  /\ pc = "call_dump_text"
  /\ LET d == dump_text(fin.t, Len(fin.t), FALSE, bytes_left)
     IN  /\ outcome' = d.fatal
         /\ bytes_left' = d.bytes_left
         /\ outbuf' = d.outbuf
         /\ printed' = d.printed
  /\ pc' = "called_dump_text"
  /\ UNCHANGED <<fin, fout>>
  /\ UNCHANGED main
  /\ UNCHANGED iteration

SpecDump == InitDump /\ [][CallDumpText]_vars

(***************************************************************************)
(* dump_text on the two halves of a UTF-8 text: each half is a text field  *)
(* of its own, led by the selector byte 0x15, as the text fields of two    *)
(* extended event descriptors are.                                         *)
(***************************************************************************)
Utf8Bytes == {65, 195, 164, 226, 130, 172}

Utf8Selector == 21

Utf8Texts ==
  {s \in SeqsUpTo(Utf8Bytes, MaxText) :
     s # <<>> /\ iconv("ISO-10646/UTF8", s).err = "ok"}

InitSplit ==
  /\ fin \in {[s |-> s, cut |-> c] : s \in Utf8Texts, c \in 0..MaxText}
  /\ fin.cut <= Len(fin.s)
  /\ fout = [first |-> <<>>, second |-> <<>>]
  /\ pc = "first"
  /\ num_files = 0 /\ k = 1 /\ buf = <<>> /\ num = 0 /\ p = 0
  /\ shortevent_count = 0 /\ bytes_left = <<>> /\ out = <<>>
  /\ outcome = None /\ hdr = None
  /\ descriptor_tag = 0 /\ descriptor_length = 0 /\ length_of_items = 0
  /\ it_start = 0 /\ out_mark = 0 /\ outbuf = <<>> /\ printed = <<>>

\* dump_text (text1, len, 0)
DecodeFirst ==
  /\ pc = "first"
  /\ LET text1 == <<Utf8Selector>> \o Take(fin.s, fin.cut)
         d == dump_text(text1, Len(text1), FALSE, bytes_left)
     IN  /\ outcome' = d.fatal
         /\ bytes_left' = d.bytes_left
         /\ outbuf' = d.outbuf
         /\ printed' = d.printed
         /\ fout' = [fout EXCEPT !.first = d.printed]
         /\ pc' = IF d.fatal = None THEN "second" ELSE "exit"
  /\ UNCHANGED fin
  /\ UNCHANGED main
  /\ UNCHANGED iteration

\* dump_text (text2, len, 1)
DecodeSecond ==
  /\ pc = "second"
  /\ LET text2 == <<Utf8Selector>> \o Drop(fin.s, fin.cut)
         d == dump_text(text2, Len(text2), TRUE, bytes_left)
     IN  /\ outcome' = d.fatal
         /\ bytes_left' = d.bytes_left
         /\ outbuf' = d.outbuf
         /\ printed' = d.printed
         /\ fout' = [fout EXCEPT !.second = d.printed]
         /\ pc' = IF d.fatal = None THEN "joined" ELSE "exit"
  /\ UNCHANGED fin
  /\ UNCHANGED main
  /\ UNCHANGED iteration

SpecSplit == InitSplit /\ [][DecodeFirst \/ DecodeSecond]_vars

(***************************************************************************)
(* The header decode on its own: every status byte.                        *)
(***************************************************************************)
InitHeader ==
  /\ \E b \in Byte : buf = [Header EXCEPT ![11] = b]
  /\ num = 12
  /\ pc = "header"
  /\ num_files = 1 /\ k = 1 /\ p = 0
  /\ shortevent_count = 0 /\ bytes_left = <<>> /\ out = <<>>
  /\ outcome = None /\ hdr = None
  /\ descriptor_tag = 0 /\ descriptor_length = 0 /\ length_of_items = 0
  /\ it_start = 0 /\ out_mark = 0 /\ outbuf = <<>> /\ printed = <<>>
  /\ fin = None /\ fout = None

SpecHeader == InitHeader /\ [][ParseHeader \/ EndRecord \/ Return]_vars

(***************************************************************************)
(* parse_duration on its own: three bytes with decimal and non-decimal     *)
(* nibbles, lengths 0..MaxField.                                           *)
(***************************************************************************)
BcdBytes == {0, 9, 16, 89, 153, 154, 160, 255}

InitDuration ==
  /\ fin \in {[t |-> <<a, b, c>>, len |-> n] :
                a \in BcdBytes, b \in BcdBytes, c \in BcdBytes, n \in 0..MaxField}
  /\ fout = None
  /\ pc = "call_parse_duration"
  /\ num_files = 0 /\ k = 1 /\ buf = <<>> /\ num = 0 /\ p = 0
  /\ shortevent_count = 0 /\ bytes_left = <<>> /\ out = <<>>
  /\ outcome = None /\ hdr = None
  /\ descriptor_tag = 0 /\ descriptor_length = 0 /\ length_of_items = 0
  /\ it_start = 0 /\ out_mark = 0 /\ outbuf = <<>> /\ printed = <<>>

\* r = parse_duration (p, len, &dur); *s is left as it was when len < 3
CallParseDuration ==
  /\ pc = "call_parse_duration"
  /\ \E u \in Indeterminate :
       fout' = IF fin.len < 3
               THEN [r |-> 0, s |-> [hour |-> u, minute |-> u, second |-> u]]
               ELSE [r |-> 3, s |-> parse_duration(fin.t)]
  /\ pc' = "called_parse_duration"
  /\ UNCHANGED <<fin, bytes_left, outcome, outbuf, printed>>
  /\ UNCHANGED main
  /\ UNCHANGED iteration

SpecDuration == InitDuration /\ [][CallParseDuration]_vars

(***************************************************************************)
(* parse_start_time on its own: MJD values on both sides of 15079, the     *)
(* first value of which MJD - 15078.2 is positive.                         *)
(***************************************************************************)
MjdHighBytes == {0, 58, 59, 192, 255}

TimeBytes == {<<18, 69, 0>>, <<255, 255, 255>>}

InitStartTime ==
  /\ fin \in {[t |-> <<a, b>> \o hms, len |-> n] :
                a \in MjdHighBytes, b \in Byte, hms \in TimeBytes, n \in 4..5}
  /\ fout = None
  /\ pc = "call_parse_start_time"
  /\ num_files = 0 /\ k = 1 /\ buf = <<>> /\ num = 0 /\ p = 0
  /\ shortevent_count = 0 /\ bytes_left = <<>> /\ out = <<>>
  /\ outcome = None /\ hdr = None
  /\ descriptor_tag = 0 /\ descriptor_length = 0 /\ length_of_items = 0
  /\ it_start = 0 /\ out_mark = 0 /\ outbuf = <<>> /\ printed = <<>>

\* r = parse_start_time (p, len, &st); *s is left as it was when len < 5
CallParseStartTime ==
  /\ pc = "call_parse_start_time"
  /\ \E u \in Indeterminate :
       fout' = IF fin.len < 5
               THEN [r |-> 0,
                     s |-> [date |-> [Y |-> u, M |-> u, D |-> u],
                            t |-> [hour |-> u, minute |-> u, second |-> u]]]
               ELSE [r |-> 5, s |-> parse_start_time(fin.t)]
  /\ pc' = "called_parse_start_time"
  /\ UNCHANGED <<fin, bytes_left, outcome, outbuf, printed>>
  /\ UNCHANGED main
  /\ UNCHANGED iteration

SpecStartTime == InitStartTime /\ [][CallParseStartTime]_vars

(***************************************************************************)
(* Properties                                                              *)
(***************************************************************************)

\* An iteration of the descriptor loop has ended without a fatal outcome.
IterationEnded == it_start > 0 /\ outcome \in {None, "done"}

\* C1: in every iteration of the descriptor loop that does not end fatally,
\* whatever the tag, the cursor at the end of the iteration is at least
\* descriptor_length bytes beyond the position just after the 2-byte
\* tag/length prefix.
C1_AdvancesDeclaredLength ==
  IterationEnded => p >= it_start + 2 + descriptor_length

\* C2: for a multi-byte encoded string split at any byte position into text1
\* and text2, decoding text1 with append = 0 and then text2 with append = 1
\* prints, concatenated, what one decode of the unsplit string prints.
C2_SplitDecodesAsWhole ==
  pc = "joined" =>
    fout.first \o fout.second =
      dump_text(<<Utf8Selector>> \o fin.s, Len(fin.s) + 1, FALSE, <<>>).printed

\* C3: when several records are decoded in one run, the carryover buffer of
\* the text decoder is empty at the moment the decoding of each record begins.
C3_CarryoverEmptyAtRecordStart ==
  pc = "header" => bytes_left = <<>>

\* C4: an extended event descriptor whose items-length byte is nonzero, for
\* every descriptor_number including 0, ends in the fatal outcome and nothing
\* has been printed for that descriptor before it.
C4_ItemsFatalBeforeOutput ==
  (it_start > 0 /\ descriptor_tag = EXTENDED_EVENT_DESCRIPTOR /\ length_of_items > 0)
    => (outcome = "items" /\ Len(out) = out_mark)

\* C5: on every text field on which get_code_table returns, the consumed-byte
\* count is in {0,1,3} and never exceeds the field length: 0 exactly when the
\* field is empty or its first byte is >= 0x20 (and then the encoding is the
\* default), 3 exactly when the first byte is 0x10, 1 for every other first
\* byte below 0x20.
C5_SelectorConsumed ==
  (pc = "called_get_code_table" /\ fout.fatal = None) =>
    LET empty == fin.len = 0
        first == fin.t[1]
    IN  /\ fout.ret \in {0, 1, 3}
        /\ fout.ret <= fin.len
        /\ (fout.ret = 0 <=> (empty \/ first >= 32))
        /\ (fout.ret = 0 => fout.code_table = "ISO-8859-1")
        /\ (fout.ret = 3 <=> (~empty /\ first = 16))
        /\ (fout.ret = 1 <=> (~empty /\ first < 32 /\ first # 16))

\* get_code_table has returned having consumed the three selector bytes.
C5_Witness ==
  /\ pc = "called_get_code_table"
  /\ fout.fatal = None
  /\ fout.ret = 3
  /\ fin.t[1] = 16

\* C6: a text field whose first byte is 0x10 gets through get_code_table
\* without a fatal outcome only if at least 3 bytes are available and the
\* second byte is 0x00; with fewer than 3 bytes, or with a nonzero second
\* byte, get_code_table ends fatally and returns no encoding.
C6_SelectorTenFatal ==
  (pc = "called_get_code_table" /\ fin.len >= 1 /\ fin.t[1] = 16) =>
    /\ (fout.fatal = None => (fin.len >= 3 /\ fin.t[2] = 0))
    /\ ((fin.len < 3 \/ fin.t[2] # 0) =>
          (fout.fatal # None /\ fout.code_table = None))

\* get_code_table has ended on the nonzero second byte of a 3-byte selector.
C6_Witness ==
  /\ pc = "called_get_code_table"
  /\ fin.len >= 3
  /\ fin.t[1] = 16
  /\ fin.t[2] # 0
  /\ fout.fatal = "assert"

\* The escaper as a map over every character of the text.
EscapeAll(s) ==
  Flat([i \in 1..Len(s) |-> IF NeedsEscape(s[i]) THEN Escape(s[i]) ELSE <<s[i]>>],
       1, Len(s))

\* C7: for every decoded text, what is printed is the in-order concatenation,
\* over every character of the text, of the escape \u00XX when the character
\* is '"', '\' or a control character 0x00..0x1F (0x00 included), and of the
\* character itself otherwise; no character of the decoded text is dropped.
C7_EscapesEveryCharacter ==
  (pc = "called_dump_text" /\ outcome = None) => printed = EscapeAll(outbuf)

\* The positions of out that open a short event.
ShortOpens(o) == {i \in 1..Len(o) : o[i].kind = "short_open"}

\* C8: the k-th short event descriptor of a record is printed with counter
\* value k; a record of exactly one well-formed short event descriptor ends
\* done with exactly one short event, of counter value 1.
C8_CounterPerRecord ==
  /\ \A i \in ShortOpens(out) :
       out[i].n = Cardinality({j \in ShortOpens(out) : j <= i})
  /\ (outcome = "done" /\ buf = Header \o ShortD(7, <<65>>, <<65>>)) =>
       (Cardinality(ShortOpens(out)) = 1 /\ \A i \in ShortOpens(out) : out[i].n = 1)

\* C9: the descriptor loop never ends done with the cursor anywhere but
\* exactly at the record's end.
C9_DoneAtRecordEnd ==
  (outcome = "done" /\ it_start > 0) => p = num

\* C10: the decoded running_status lies in 0..7, and each of the eight values
\* 0..7 is the decoded value for some status byte.
C10_RunningStatusThreeBits ==
  (pc = "loop" /\ it_start = 0) =>
    /\ hdr.running_status \in 0..7
    /\ \A v \in 0..7 : \E b \in Byte : RunningStatus(b) = v

\* the two BCD digits of a byte, read as the claim reads them
DigitPair(b) == ((b \div 16) * 10) + (b % 16)

\* C11: for every triplet of bytes, nibbles that are no decimal digits
\* included, parse_duration succeeds and each of hour, minute and second is
\* (byte>>4)*10 + (byte&0xF) and lies in 0..99.
C11_DigitPairsInRange ==
  (pc = "called_parse_duration" /\ fin.len >= 3) =>
    /\ fout.r = 3
    /\ fout.s.hour = DigitPair(fin.t[1]) /\ fout.s.hour \in 0..99
    /\ fout.s.minute = DigitPair(fin.t[2]) /\ fout.s.minute \in 0..99
    /\ fout.s.second = DigitPair(fin.t[3]) /\ fout.s.second \in 0..99

\* The section 4.1 formula with floor at each step (\div rounds down).
FloorDate(MJD) ==
  LET Ys == ((100 * MJD) - 1507820) \div 36525
      F == (Ys * 36525) \div 100
      Ms == ((((MJD - F) * 10) - 149561) * 1000) \div 306001
      G == (Ms * 306001) \div 10000
      K == IF Ms = 14 \/ Ms = 15 THEN 1 ELSE 0
  IN  [Y |-> Ys + K, M |-> Ms - 1 - (12 * K), D |-> MJD - 14956 - F - G]

\* C12: for every 16-bit MJD in the first two bytes, the (year, month, day)
\* of parse_start_time are those of the section 4.1 formula computed with
\* floor at each step; on C0 79 12 45 00 the date is 93/10/13 (1993-10-13)
\* and the time 12:45:00.
C12_DateIsFloorFormula ==
  (pc = "called_parse_start_time" /\ fin.len >= 5) =>
    /\ fout.s.date = FloorDate((fin.t[1] * 256) + fin.t[2])
    /\ (fin.t = <<192, 121, 18, 69, 0>> =>
          fout.s = [date |-> [Y |-> 93, M |-> 10, D |-> 13],
                    t |-> [hour |-> 12, minute |-> 45, second |-> 0]])

\* This step is one iteration of the descriptor loop, on a descriptor of
\* the given tag.
IterationOf(tag) == pc = "loop" /\ it_start' = p /\ descriptor_tag' = tag

\* C13: bytes stashed in the carryover stay unchanged until the next text
\* field decoded with continuation set: decoding the name and text of a short
\* event, which are decoded with continuation not set, leaves them unchanged.
C13_CarryoverKeptByPlainText ==
  [][(IterationOf(SHORT_EVENT_DESCRIPTOR) /\ bytes_left # <<>> /\ pc' = "loop")
       => bytes_left' = bytes_left]_vars

\* The extended event descriptor at the cursor lies wholly inside the record
\* up to and including its text-length byte.
ExtendedInRecord == p + 7 < num

\* descriptor_number of the extended event descriptor at the cursor
DescriptorNumberAtCursor == buf[p + 3] \div 16

\* C14 as stated: the 3 language-code bytes are consumed only when
\* descriptor_number = 0; for descriptor_number > 0 the items-length byte is
\* the byte immediately following the descriptor_number/last_descriptor_number
\* byte, and the text-length byte follows it.
C14_LanguageOnlyInFirstFragment ==
  [][(IterationOf(EXTENDED_EVENT_DESCRIPTOR) /\ ExtendedInRecord)
       => LET skip == IF DescriptorNumberAtCursor = 0 THEN 3 ELSE 0
          IN  /\ length_of_items' = buf[p + 4 + skip]
              /\ (pc' = "loop" => p' = p + 5 + skip + buf[p + 5 + skip])]_vars

\* C14 (amended): the 3 language-code bytes are consumed for every
\* descriptor_number (they are printed only for descriptor_number 0): the
\* items-length byte is the fourth byte after the
\* descriptor_number/last_descriptor_number byte, and the text-length byte
\* follows it.
C14_LanguageInEveryFragment ==
  [][(IterationOf(EXTENDED_EVENT_DESCRIPTOR) /\ ExtendedInRecord)
       => /\ length_of_items' = buf[p + 7]
          /\ (pc' = "loop" => p' = p + 8 + buf[p + 8])]_vars

\* A fragment with descriptor_number > 0 has been decoded whose byte after
\* the descriptor_number byte is not its items-length byte.
C14_Witness ==
  /\ it_start > 0
  /\ descriptor_tag = EXTENDED_EVENT_DESCRIPTOR
  /\ it_start + 7 < num
  /\ buf[it_start + 3] \div 16 > 0
  /\ pc = "loop"
  /\ length_of_items = 0
  /\ buf[it_start + 4] # 0
  /\ p = it_start + 8 + 3

\* The tags the descriptor loop has a branch for.
KnownTags == {SHORT_EVENT_DESCRIPTOR, EXTENDED_EVENT_DESCRIPTOR, COMPONENT_DESCRIPTOR}

\* C15: when the walker reads a descriptor whose tag is none of 0x4D, 0x4E,
\* 0x50 and at least one byte of the record remains after the 2-byte prefix,
\* the decoding ends in the fatal outcome and no later descriptor is decoded;
\* when no byte remains after the prefix the iteration ends without a fatal
\* outcome, with the cursor at or past the record's end, so that the loop
\* ends and the record is done.
C15_UnknownTagFatalIffBytesRemain ==
  [][(pc = "loop" /\ it_start' = p /\ descriptor_tag' \notin KnownTags)
       => IF num - (p + 2) > 0
          THEN pc' = "exit" /\ outcome' = "unknown_tag"
          ELSE pc' = "loop" /\ outcome' = None /\ p' >= num]_vars

\* The walker has ended fatally on an unknown tag with bytes after its prefix.
C15_Witness ==
  /\ pc = "exit"
  /\ outcome = "unknown_tag"
  /\ descriptor_tag \notin KnownTags
  /\ num - (it_start + 2) > 0

\* C16: every byte the header decode, the descriptor loop and the text
\* decoder read lies inside the record.  The header decode reads the bytes
\* up to the one before the cursor it leaves; an iteration reads the
\* tag/length pair at its start; the short event and extended event branches
\* read their fixed sub-fields and text fields up to the byte before the
\* cursor they leave.
C16_ReadsInsideRecord ==
  /\ (pc = "loop" /\ it_start = 0) => p <= num
  /\ it_start > 0 => it_start + 2 <= num
  /\ (it_start > 0 /\ pc = "loop"
        /\ descriptor_tag \in {SHORT_EVENT_DESCRIPTOR, EXTENDED_EVENT_DESCRIPTOR})
       => p <= num

\* The extended event blocks open after the first i events of o.
OpenBlocks(o, i) ==
  Cardinality({j \in 1..i : o[j].kind = "ext_open"})
    - Cardinality({j \in 1..i : o[j].kind = "ext_close"})

\* The i-th event of o is the name or the text of a short event.
IsShortChars(o, i) ==
  /\ i > 1
  /\ \/ o[i - 1].kind = "name_key"
     \/ (i > 2 /\ o[i - 1].kind = "text_key" /\ o[i - 2].kind = "name_end")

\* The i-th event of o is the text of an extended event fragment.
IsFragmentText(o, i) == o[i].kind = "chars" /\ ~IsShortChars(o, i)

\* C17: in every record that ends done the extended event block boundaries
\* are balanced: a closing is printed only for a block that is open, no
\* fragment text is printed outside an open block, and every opened block has
\* been closed before the record is done.
C17_BlocksBalanced ==
  outcome = "done" =>
    /\ \A i \in 1..Len(out) :
         /\ out[i].kind = "ext_close" => OpenBlocks(out, i - 1) = 1
         /\ IsFragmentText(out, i) => OpenBlocks(out, i) = 1
    /\ OpenBlocks(out, Len(out)) = 0

====
